---- MODULE Spec2Model ----
(***************************************************************************)
(* Model of dpo_train.py: the preference-dataset loader get_dataset, the   *)
(* training orchestrator train_dpo, the adapter merge utility              *)
(* merge_lora_weight_into_model and the __main__ block.                     *)
(*                                                                         *)
(* A Python str is a sequence of one-character strings.  A model object is *)
(* a cell of a heap addressed by an object id; 0 stands for None.           *)
(***************************************************************************)
EXTENDS Integers, Sequences, FiniteSets, TLC

\* ---------------------------------------------------------------- bounds
\* longest sft_model_file path, in characters
MaxPathLen == 3
\* most rows of a JSON-lines file
MaxRows == 3
\* most get_dataset calls on one file
MaxCalls == 2
\* most procedure runs (train_dpo, merge, __main__) against one filesystem
MaxRuns == 2

\* ----------------------------------------------------------------- state
VARIABLES
    file,             \* the rows of the JSON-lines file config.dpo_train_file
    clock,            \* the wall clock read by time.strftime
    outs,             \* the datasets returned by the get_dataset calls so far
    sft_model_file,   \* config.sft_model_file
    isdir,            \* os.path.isdir(config.sft_model_file)
    runs,             \* procedure runs started so far
    entry,            \* the running procedure
    from_main,        \* the run was started by the __main__ block
    main_peft_config, \* the LoraConfig built by the __main__ block
    peft_config,      \* the peft_config parameter of the running procedure
    pc,               \* the next step of the running procedure
    trace,            \* the steps the running procedure has run, with outcome
    heap,             \* the model objects of the process, by object id
    model_train,      \* train_dpo locals (object ids; 0 is None)
    model_ref,
    train_dataset,
    dpo_trainer,
    model_save_dir,
    sft_model,        \* merge_lora_weight_into_model locals
    peft_model,
    adapter_save_dir,
    save_merge_file,
    fs,               \* the model and adapter directories written so far
    logs              \* the loss-log CSV files written so far

dataVars == <<file, clock, outs>>
configVars == <<sft_model_file, isdir>>
trainLocals == <<model_train, model_ref, train_dataset, dpo_trainer, model_save_dir>>
mergeLocals == <<sft_model, peft_model, adapter_save_dir, save_merge_file>>
runVars == <<runs, entry, from_main, main_peft_config, peft_config, pc, trace, heap>>
vars == <<dataVars, configVars, runVars, trainLocals, mergeLocals, fs, logs>>

\* ------------------------------------------------------ strings and paths
\* a seed taken from the clock instead of the literal
ShuffleSeedFromClock == clock

\* the argument of dataset.shuffle
ShuffleSeed == 2333

\* the literal appended by split_prompt_and_responses
EOS == <<"[", "E", "O", "S", "]">>

LoraSuffix == <<"/", "l", "o", "r", "a", "/">>
DpoSuffix == <<"/", "d", "p", "o">>
AdapterSuffix == <<"/", "l", "o", "r", "a">>
MergedSuffix == <<".", "d", "p", "o", "_", "l", "o", "r", "a", "_", "m", "e", "r", "g", "e", "d">>

None == "None"
LoraConfig == "LoraConfig"

\* a local name that has not been assigned yet
Unassigned == <<"unassigned">>

\* the weights of a freshly constructed architecture
RandomWeights == <<"random">>

\* dpo_trainer before DPOTrainer(...) has returned
NoTrainer == [model |-> 0, ref_model |-> 0, peft_config |-> None,
              trained |-> FALSE, log_history |-> <<>>]

PathChars == {"/", "m"}

RECURSIVE SeqsUpTo(_, _)
SeqsUpTo(S, n) ==
    IF n = 0 THEN {<<>>}
    ELSE LET shorter == SeqsUpTo(S, n - 1)
         IN shorter \cup {Append(s, c) : s \in shorter, c \in S}

Paths == SeqsUpTo(PathChars, MaxPathLen)

\* str.split(sep) for a one-character separator: the segments between the
\* separators, left to right; always at least one segment
RECURSIVE SplitFrom(_, _, _, _)
SplitFrom(s, sep, i, cur) ==
    IF i > Len(s) THEN <<cur>>
    ELSE IF s[i] = sep THEN <<cur>> \o SplitFrom(s, sep, i + 1, <<>>)
    ELSE SplitFrom(s, sep, i + 1, Append(cur, s[i]))

Split(s, sep) == SplitFrom(s, sep, 1, <<>>)

\* sep.join(segs)
RECURSIVE Join(_, _)
Join(sep, segs) ==
    IF Len(segs) = 0 THEN <<>>
    ELSE IF Len(segs) = 1 THEN segs[1]
    ELSE segs[1] \o <<sep>> \o Join(sep, Tail(segs))

\* segs[0:-1]
AllButLast(segs) == SubSeq(segs, 1, Len(segs) - 1)

\* '/'.join(path.split('/')[0:-1])
ParentDir(path) == Join("/", AllButLast(Split(path, "/")))

\* ------------------------------------------------------------- get_dataset
PromptTexts == {<<>>, <<"a">>, EOS}
ChosenTexts == {<<"a">>, <<"a">> \o EOS}
RejectedTexts == {<<>>, <<"b">>}

\* one JSON object of the JSON-lines file
Samples == [prompt : PromptTexts, chosen : ChosenTexts, rejected : RejectedTexts]

\* the JSON-lines files: every sequence of at most MaxRows objects
Datasets == SeqsUpTo(Samples, MaxRows)

\* f"{sample['prompt']}[EOS]" and the like
SplitPromptAndResponsesNoDouble(sample) ==
    LET add(t) == IF Len(t) >= Len(EOS) /\ SubSeq(t, Len(t) - Len(EOS) + 1, Len(t)) = EOS
                  THEN t ELSE t \o EOS
    IN [prompt |-> add(sample.prompt),
        chosen |-> add(sample.chosen),
        rejected |-> add(sample.rejected)]

SplitPromptAndResponses(sample) ==
    [prompt |-> sample.prompt \o EOS,
     chosen |-> sample.chosen \o EOS,
     rejected |-> sample.rejected \o EOS]

\* dataset.map(split_prompt_and_responses): every row replaced by what the
\* function returns for it, order kept
Map(dataset) == [i \in 1..Len(dataset) |-> SplitPromptAndResponses(dataset[i])]

\* numpy.random.default_rng(seed): a generator whose state is fixed by the
\* seed alone (the state space is folded to 16 values)
DefaultRng(seed) == seed % 16

\* one step of the bit generator
BitGenNext(state) == (state * 5 + 3) % 16

Swap(arr, i, j) == [arr EXCEPT ![i] = arr[j], ![j] = arr[i]]

\* the Fisher-Yates pass of Generator.permutation: position i (from the
\* last down to the second) is exchanged with a drawn position j <= i
RECURSIVE FisherYates(_, _, _)
FisherYates(arr, i, state) ==
    IF i < 2 THEN arr
    ELSE LET next == BitGenNext(state)
             j == (next % i) + 1
         IN FisherYates(Swap(arr, i, j), i - 1, next)

\* a draw with replacement: every index drawn on its own
RECURSIVE DrawIndices(_, _, _)
DrawIndices(n, k, state) ==
    IF k = 0 THEN <<>>
    ELSE LET next == BitGenNext(state)
         IN <<(next % n) + 1>> \o DrawIndices(n, k - 1, next)

PermutationWithReplacement(state, n) == DrawIndices(n, n, state)

\* Generator.permutation(n): arange(n), shuffled
Permutation(state, n) == FisherYates([i \in 1..n |-> i], n, state)

\* dataset.select(indices): whole rows, in the order of the indices
Select(dataset, indices) == [i \in 1..Len(indices) |-> dataset[indices[i]]]

\* dataset.shuffle(seed)
Shuffle(dataset, seed) == Select(dataset, Permutation(DefaultRng(seed), Len(dataset)))

\* get_dataset(split, file): the json loader puts every row of the one data
\* file in the split "train"
GetDataset(split, rows) == Shuffle(Map(rows), ShuffleSeed)

\* ------------------------------------------------ get_dataset, called alone
NoRun ==
    /\ runs = 0 /\ entry = "idle" /\ from_main = FALSE
    /\ main_peft_config = None /\ peft_config = None
    /\ pc = "idle" /\ trace = <<>> /\ heap = <<>>
    /\ model_train = 0 /\ model_ref = 0 /\ train_dataset = Unassigned
    /\ dpo_trainer = NoTrainer /\ model_save_dir = Unassigned
    /\ sft_model = 0 /\ peft_model = 0
    /\ adapter_save_dir = Unassigned /\ save_merge_file = Unassigned
    /\ fs = {} /\ logs = {}

InitData ==
    /\ file \in Datasets
    /\ clock = 0
    /\ outs = <<>>
    /\ sft_model_file = <<>>
    /\ isdir = FALSE
    /\ NoRun

CallGetDataset ==
    /\ Len(outs) < MaxCalls
    /\ outs' = Append(outs, GetDataset("train", file))
    /\ clock' = clock + 1
    /\ UNCHANGED <<file, configVars, runVars, trainLocals, mergeLocals, fs, logs>>

NextData == CallGetDataset

SpecData == InitData /\ [][NextData]_vars

\* ------------------------------------------------------ the model objects
\* TextToTextModel.from_pretrained(path), or TextToTextModel(t5_config)
\* followed by load_state_dict(torch.load(path)): a new object holding the
\* weights stored at path, not yet updated, carrying no adapter
ModelFrom(path) == [weights |-> path, updates |-> 0, adapter |-> "none", base |-> 0]

\* TextToTextModel(t5_config): a new object with freshly initialised weights
FreshModel == [weights |-> RandomWeights, updates |-> 0, adapter |-> "none", base |-> 0]

\* load_state_dict(torch.load(path)) on the object id
LoadStateDict(h, id, path) == [h EXCEPT ![id].weights = path]

\* step 2 of train_dpo with one object bound to both names
LoadModelsAliased(h, path, dir) ==
    LET h1 == Append(h, ModelFrom(path))
    IN [heap |-> h1, model_train |-> Len(h1), model_ref |-> Len(h1)]

\* step 2 of train_dpo: the trainable and the reference model
LoadModels(h, path, dir) ==
    IF dir
    THEN LET h1 == Append(h, ModelFrom(path))
             h2 == Append(h1, ModelFrom(path))
         IN [heap |-> h2, model_train |-> Len(h1), model_ref |-> Len(h2)]
    ELSE LET h1 == Append(h, FreshModel)
             h2 == LoadStateDict(h1, Len(h1), path)
             h3 == Append(h2, FreshModel)
             h4 == LoadStateDict(h3, Len(h3), path)
         IN [heap |-> h4, model_train |-> Len(h1), model_ref |-> Len(h3)]

\* step 2 of merge_lora_weight_into_model: the base model
LoadSftModel(h, path, dir) ==
    IF dir
    THEN LET h1 == Append(h, ModelFrom(path))
         IN [heap |-> h1, sft_model |-> Len(h1)]
    ELSE LET h1 == Append(h, FreshModel)
             h2 == LoadStateDict(h1, Len(h1), path)
         IN [heap |-> h2, sft_model |-> Len(h1)]

\* PeftModel.from_pretrained(model=id, ...): the adapter layers are injected
\* into the object id itself, and a new wrapper object refers to it
PeftFromPretrained(h, id) ==
    LET h1 == [h EXCEPT ![id].adapter = "attached"]
        h2 == Append(h1, [weights |-> <<"wrapper">>, updates |-> 0,
                          adapter |-> "wrapper", base |-> id])
    IN [heap |-> h2, peft_model |-> Len(h2)]

\* the adapter layers taken off the base model without folding them in
UnloadOnly(h, wrapper) ==
    LET id == h[wrapper].base
    IN [heap |-> [h EXCEPT ![id].adapter = "none"], result |-> id]

\* peft_model.merge_and_unload(): the adapter weights are folded into the
\* wrapped base model, in place, and the base model object is returned
MergeAndUnload(h, wrapper) ==
    LET id == h[wrapper].base
    IN [heap |-> [h EXCEPT ![id].adapter = "merged"], result |-> id]

\* --------------------------------------------------------- derived paths
\* suffixe = '/lora/' if peft_config is not None else '/dpo'
Suffixe(peft) == IF peft # None THEN LoraSuffix ELSE DpoSuffix

\* the whole path kept, the suffix added
ModelSaveDirWholePath(path, peft) == path \o Suffixe(peft)

\* model_save_dir of train_dpo
ModelSaveDir(path, peft) == ParentDir(path) \o Suffixe(peft)

\* the adapter looked for next to the full-model output
AdapterSaveDirDpo(path) == ParentDir(path) \o DpoSuffix

\* adapter_save_dir of merge_lora_weight_into_model
AdapterSaveDir(path) == ParentDir(path) \o AdapterSuffix

\* the merged output written into the parent directory
SaveMergeFileInParent(path) == ParentDir(path) \o MergedSuffix

\* save_merge_file of merge_lora_weight_into_model
SaveMergeFile(path) == path \o MergedSuffix

\* ------------------------------------------------------- procedure runs
TrainSteps == <<"load_tokenizer", "load_model", "load_dataset", "training_args",
                "init_trainer", "train", "save_log", "save_model">>

MergeSteps == <<"load_tokenizer", "load_model", "from_pretrained",
                "load_adapter", "merge", "save">>

StepsOf(proc) == IF proc = "train_dpo" THEN TrainSteps ELSE MergeSteps

\* the step that follows step in the procedure, "done" after the last
After(proc, step) ==
    LET steps == StepsOf(proc)
        i == CHOOSE k \in 1..Len(steps) : steps[k] = step
    IN IF i = Len(steps) THEN "done" ELSE steps[i + 1]

\* the argument __main__ would pass if it handed over the LoraConfig it built
MainPeftArgumentBuilt(built) == built

\* the peft_config argument of the train_dpo call in __main__
MainPeftArgument(built) == None

\* a new process: no model object, no local assigned
FreshLocals ==
    /\ heap' = <<>>
    /\ model_train' = 0 /\ model_ref' = 0 /\ train_dataset' = Unassigned
    /\ dpo_trainer' = NoTrainer /\ model_save_dir' = Unassigned
    /\ sft_model' = 0 /\ peft_model' = 0
    /\ adapter_save_dir' = Unassigned /\ save_merge_file' = Unassigned

Start(proc, peft, main) ==
    /\ pc \in {"idle", "done", "aborted"}
    /\ runs < MaxRuns
    /\ runs' = runs + 1
    /\ clock' = clock + 1
    /\ entry' = proc
    /\ from_main' = main
    /\ peft_config' = peft
    /\ pc' = "load_tokenizer"
    /\ trace' = <<>>
    /\ FreshLocals
    /\ UNCHANGED <<file, outs, configVars, fs, logs>>

\* the __main__ block: builds a LoraConfig and a DpoConfig, calls train_dpo
Main ==
    /\ main_peft_config' = LoraConfig
    /\ Start("train_dpo", MainPeftArgument(LoraConfig), TRUE)

\* train_dpo(config, peft_config) called by another module
CallTrainDpo ==
    /\ \E peft \in {None, LoraConfig} : Start("train_dpo", peft, FALSE)
    /\ main_peft_config' = None

\* merge_lora_weight_into_model(config, peft_config) called by another module
CallMerge ==
    /\ Start("merge_lora_weight_into_model", LoraConfig, FALSE)
    /\ main_peft_config' = None

\* an exception caught and dropped: the procedure goes on with the next step
RaiseAndContinue(step) ==
    /\ pc' = After(entry, step)
    /\ trace' = Append(trace, [step |-> step, ok |-> FALSE])

\* an exception raised inside step: no handler, it propagates out of the
\* procedure and ends the process
Raise(step) ==
    /\ pc' = "aborted"
    /\ trace' = Append(trace, [step |-> step, ok |-> FALSE])

\* step returned normally
Return(step) ==
    /\ pc' = After(entry, step)
    /\ trace' = Append(trace, [step |-> step, ok |-> TRUE])

AtStep(proc, step) == entry = proc /\ pc = step

runFixed == <<runs, entry, from_main, main_peft_config, peft_config>>

\* ---------------------------------------------------------------- train_dpo
\* step 1: PreTrainedTokenizerFast.from_pretrained(config.tokenizer_dir)
TrainLoadTokenizer ==
    /\ AtStep("train_dpo", "load_tokenizer")
    /\ Return("load_tokenizer") \/ Raise("load_tokenizer")
    /\ UNCHANGED <<dataVars, configVars, runFixed, heap, trainLocals, mergeLocals, fs, logs>>

\* step 2: model_train and model_ref
TrainLoadModel ==
    /\ AtStep("train_dpo", "load_model")
    /\ \/ LET loaded == LoadModels(heap, sft_model_file, isdir)
          IN /\ heap' = loaded.heap
             /\ model_train' = loaded.model_train
             /\ model_ref' = loaded.model_ref
             /\ Return("load_model")
       \/ /\ Raise("load_model")
          /\ UNCHANGED <<heap, model_train, model_ref>>
    /\ UNCHANGED <<dataVars, configVars, runFixed, train_dataset, dpo_trainer,
                   model_save_dir, mergeLocals, fs, logs>>

\* step 4: train_dataset = get_dataset("train", file=config.dpo_train_file)
TrainLoadDataset ==
    /\ AtStep("train_dpo", "load_dataset")
    /\ \/ /\ train_dataset' = GetDataset("train", file)
          /\ Return("load_dataset")
       \/ /\ Raise("load_dataset")
          /\ UNCHANGED train_dataset
    /\ UNCHANGED <<dataVars, configVars, runFixed, heap, model_train, model_ref,
                   dpo_trainer, model_save_dir, mergeLocals, fs, logs>>

\* step 6: TrainingArguments(...)
TrainTrainingArgs ==
    /\ AtStep("train_dpo", "training_args")
    /\ Return("training_args") \/ Raise("training_args")
    /\ UNCHANGED <<dataVars, configVars, runFixed, heap, trainLocals, mergeLocals, fs, logs>>

\* step 7: DPOTrainer(model_train, model_ref, peft_config=peft_config, ...);
\* with a peft_config the trainer puts the adapter layers on model_train
TrainInitTrainer ==
    /\ AtStep("train_dpo", "init_trainer")
    /\ \/ /\ dpo_trainer' = [model |-> model_train, ref_model |-> model_ref,
                             peft_config |-> peft_config, trained |-> FALSE,
                             log_history |-> <<>>]
          /\ heap' = IF peft_config # None
                     THEN [heap EXCEPT ![model_train].adapter = "attached"]
                     ELSE heap
          /\ Return("init_trainer")
       \/ /\ Raise("init_trainer")
          /\ UNCHANGED <<heap, dpo_trainer>>
    /\ UNCHANGED <<dataVars, configVars, runFixed, model_train, model_ref,
                   train_dataset, model_save_dir, mergeLocals, fs, logs>>

\* step 8: dpo_trainer.train(): the trainer updates its model, never its
\* reference model; an error may come after some updates were applied
TrainTrain ==
    /\ AtStep("train_dpo", "train")
    /\ \/ /\ heap' = [heap EXCEPT ![dpo_trainer.model].updates = @ + 1]
          /\ dpo_trainer' = [dpo_trainer EXCEPT
                                !.trained = TRUE,
                                !.log_history = Append(@, "loss")]
          /\ Return("train")
       \/ /\ \/ heap' = [heap EXCEPT ![dpo_trainer.model].updates = @ + 1]
             \/ UNCHANGED heap
          /\ Raise("train")
          /\ UNCHANGED dpo_trainer
    /\ UNCHANGED <<dataVars, configVars, runFixed, model_train, model_ref,
                   train_dataset, model_save_dir, mergeLocals, fs, logs>>

\* step 9: the loss log written to ./logs/dpo_train_log_<time>.csv
TrainSaveLog ==
    /\ AtStep("train_dpo", "save_log")
    /\ \/ /\ logs' = logs \cup {[time |-> clock, run |-> runs,
                                 history |-> dpo_trainer.log_history]}
          /\ Return("save_log")
       \/ /\ Raise("save_log")
          /\ UNCHANGED logs
    /\ UNCHANGED <<dataVars, configVars, runFixed, heap, trainLocals, mergeLocals, fs>>

\* step 10: model_save_dir derived, dpo_trainer.save_model(model_save_dir)
TrainSaveModel ==
    /\ AtStep("train_dpo", "save_model")
    /\ model_save_dir' = ModelSaveDir(sft_model_file, peft_config)
    /\ \/ /\ fs' = fs \cup {[path |-> model_save_dir',
                             kind |-> IF peft_config # None THEN "adapter" ELSE "model",
                             by |-> "train_dpo", run |-> runs,
                             trained |-> dpo_trainer.trained,
                             content |-> heap[dpo_trainer.model]]}
          /\ Return("save_model")
       \/ /\ Raise("save_model")
          /\ UNCHANGED fs
    /\ UNCHANGED <<dataVars, configVars, runFixed, heap, model_train, model_ref,
                   train_dataset, dpo_trainer, mergeLocals, logs>>

\* ---------------------------------------------- merge_lora_weight_into_model
\* step 1: the tokenizer
MergeLoadTokenizer ==
    /\ AtStep("merge_lora_weight_into_model", "load_tokenizer")
    /\ Return("load_tokenizer") \/ Raise("load_tokenizer")
    /\ UNCHANGED <<dataVars, configVars, runFixed, heap, trainLocals, mergeLocals, fs, logs>>

\* step 2: sft_model
MergeLoadModel ==
    /\ AtStep("merge_lora_weight_into_model", "load_model")
    /\ \/ LET loaded == LoadSftModel(heap, sft_model_file, isdir)
          IN /\ heap' = loaded.heap
             /\ sft_model' = loaded.sft_model
             /\ Return("load_model")
       \/ /\ Raise("load_model")
          /\ UNCHANGED <<heap, sft_model>>
    /\ UNCHANGED <<dataVars, configVars, runFixed, trainLocals, peft_model,
                   adapter_save_dir, save_merge_file, fs, logs>>

\* adapter_save_dir derived, peft_model = PeftModel.from_pretrained(sft_model, ...)
MergeFromPretrained ==
    /\ AtStep("merge_lora_weight_into_model", "from_pretrained")
    /\ adapter_save_dir' = AdapterSaveDir(sft_model_file)
    /\ \/ LET wrapped == PeftFromPretrained(heap, sft_model)
          IN /\ heap' = wrapped.heap
             /\ peft_model' = wrapped.peft_model
             /\ Return("from_pretrained")
       \/ /\ Raise("from_pretrained")
          /\ UNCHANGED <<heap, peft_model>>
    /\ UNCHANGED <<dataVars, configVars, runFixed, trainLocals, sft_model,
                   save_merge_file, fs, logs>>

\* peft_model.load_adapter(adapter_save_dir, 'adapter'): the same adapter,
\* read again under the same name
MergeLoadAdapter ==
    /\ AtStep("merge_lora_weight_into_model", "load_adapter")
    /\ Return("load_adapter") \/ Raise("load_adapter")
    /\ UNCHANGED <<dataVars, configVars, runFixed, heap, trainLocals, mergeLocals, fs, logs>>

\* peft_model = peft_model.merge_and_unload()
MergeMerge ==
    /\ AtStep("merge_lora_weight_into_model", "merge")
    /\ \/ LET merged == MergeAndUnload(heap, peft_model)
          IN /\ heap' = merged.heap
             /\ peft_model' = merged.result
             /\ Return("merge")
       \/ /\ Raise("merge")
          /\ UNCHANGED <<heap, peft_model>>
    /\ UNCHANGED <<dataVars, configVars, runFixed, trainLocals, sft_model,
                   adapter_save_dir, save_merge_file, fs, logs>>

\* save_merge_file derived, sft_model.save_pretrained(save_merge_file)
MergeSave ==
    /\ AtStep("merge_lora_weight_into_model", "save")
    /\ save_merge_file' = SaveMergeFile(sft_model_file)
    /\ \/ /\ fs' = fs \cup {[path |-> save_merge_file', kind |-> "model",
                             by |-> "merge_lora_weight_into_model", run |-> runs,
                             trained |-> FALSE,
                             content |-> heap[sft_model]]}
          /\ Return("save")
       \/ /\ Raise("save")
          /\ UNCHANGED fs
    /\ UNCHANGED <<dataVars, configVars, runFixed, heap, trainLocals, sft_model,
                   peft_model, adapter_save_dir, logs>>

\* ------------------------------------------------------------ specification
Init ==
    /\ file \in {<<>>, <<[prompt |-> <<"a">>, chosen |-> <<"a">>, rejected |-> <<"b">>],
                         [prompt |-> <<>>, chosen |-> <<"a">> \o EOS, rejected |-> <<>>]>>}
    /\ clock = 0
    /\ outs = <<>>
    /\ sft_model_file \in Paths
    /\ isdir \in BOOLEAN
    /\ NoRun

Next ==
    \/ Main
    \/ CallTrainDpo
    \/ CallMerge
    \/ TrainLoadTokenizer
    \/ TrainLoadModel
    \/ TrainLoadDataset
    \/ TrainTrainingArgs
    \/ TrainInitTrainer
    \/ TrainTrain
    \/ TrainSaveLog
    \/ TrainSaveModel
    \/ MergeLoadTokenizer
    \/ MergeLoadModel
    \/ MergeFromPretrained
    \/ MergeLoadAdapter
    \/ MergeMerge
    \/ MergeSave

Spec == Init /\ [][Next]_vars

\* ------------------------------------------------------------ properties
Marker == <<"[", "E", "O", "S", "]">>

\* text t is text u followed by the marker
IsMarked(t, u) ==
    /\ Len(t) = Len(u) + 5
    /\ SubSeq(t, 1, Len(u)) = u
    /\ SubSeq(t, Len(u) + 1, Len(t)) = Marker

\* output sample o is input sample i with the marker after each field
IsMarkedSample(o, i) ==
    /\ IsMarked(o.prompt, i.prompt)
    /\ IsMarked(o.chosen, i.chosen)
    /\ IsMarked(o.rejected, i.rejected)

Count(seq, P(_)) == Cardinality({k \in 1..Len(seq) : P(seq[k])})

\* the index of the last "/" of path, 0 when there is none
LastSlash(path) ==
    IF \E k \in 1..Len(path) : path[k] = "/"
    THEN CHOOSE k \in 1..Len(path) :
            /\ path[k] = "/"
            /\ \A m \in (k + 1)..Len(path) : path[m] # "/"
    ELSE 0

\* path with its last '/'-separated segment, and the "/" before it, removed
WithoutLastSegment(path) ==
    IF LastSlash(path) = 0 THEN <<>> ELSE SubSeq(path, 1, LastSlash(path) - 1)

\* C1: every sample get_dataset returns is an input sample with '[EOS]' after
\* its prompt, its chosen and its rejected text, and every input sample has
\* such an output sample, also when the input text is empty or already ends
\* with '[EOS]'
C1_FieldsEndWithEOS ==
    \A c \in 1..Len(outs) :
        /\ \A j \in 1..Len(outs[c]) :
              \E i \in 1..Len(file) : IsMarkedSample(outs[c][j], file[i])
        /\ \A i \in 1..Len(file) :
              \E j \in 1..Len(outs[c]) : IsMarkedSample(outs[c][j], file[i])

C1_Witness ==
    /\ Len(outs) >= 1
    /\ \E i \in 1..Len(file) : file[i].prompt = <<>>
    /\ \E i \in 1..Len(file) : file[i].prompt = Marker
    /\ \E j \in 1..Len(outs[1]) : outs[1][j].prompt = Marker \o Marker

C10_OutputIsPermutation ==
    \A c \in 1..Len(outs) :
        /\ Len(outs[c]) = Len(file)
        /\ \A i \in 1..Len(file) :
              LET asInput(x) == x = file[i]
                  asOutput(o) == IsMarkedSample(o, file[i])
              IN Count(outs[c], asOutput) = Count(file, asInput)

C10_Witness ==
    /\ Len(outs) >= 1
    /\ Len(file) = 3
    /\ file[1] = file[3] /\ file[1] # file[2]
    /\ file[1].prompt # file[2].prompt /\ file[1].rejected # file[2].rejected
    /\ ~IsMarkedSample(outs[1][2], file[2])

InTrain == entry = "train_dpo"
InMerge == entry = "merge_lora_weight_into_model"

\* the steps of the running procedure that returned normally
Returned(step) == \E k \in 1..Len(trace) : trace[k].step = step /\ trace[k].ok

\* the step of the running procedure was started
Started(step) == \E k \in 1..Len(trace) : trace[k].step = step

\* C2: the save directory of train_dpo is sft_model_file without its last
\* '/'-separated segment, followed by '/lora/' when peft_config is not None
\* and by '/dpo' when it is None; every directory train_dpo writes is that one
C2_ModelSaveDir ==
    LET parent == WithoutLastSegment(sft_model_file)
        expected == IF peft_config # None
                    THEN parent \o <<"/", "l", "o", "r", "a", "/">>
                    ELSE parent \o <<"/", "d", "p", "o">>
    IN /\ (InTrain /\ Started("save_model")) => model_save_dir = expected
       /\ \A s \in fs :
             (s.by = "train_dpo" /\ s.run = runs) => s.path = expected

C2_Witness ==
    /\ InTrain /\ pc = "done"
    /\ peft_config # None
    /\ sft_model_file = <<"m", "/", "m">>
    /\ \E s \in fs : s.run = runs /\ s.path = <<"m", "/", "l", "o", "r", "a", "/">>

\* C3: in merge_lora_weight_into_model the adapter directory is
\* sft_model_file without its last '/'-separated segment plus '/lora', and
\* the merged output path is the whole sft_model_file plus '.dpo_lora_merged'
C3_MergePaths ==
    /\ (InMerge /\ Started("from_pretrained")) =>
          adapter_save_dir = WithoutLastSegment(sft_model_file) \o <<"/", "l", "o", "r", "a">>
    /\ (InMerge /\ Started("save")) =>
          /\ Len(save_merge_file) = Len(sft_model_file) + 16
          /\ SubSeq(save_merge_file, 1, Len(sft_model_file)) = sft_model_file
          /\ SubSeq(save_merge_file, Len(sft_model_file) + 1, Len(save_merge_file))
                = <<".", "d", "p", "o", "_", "l", "o", "r", "a", "_",
                    "m", "e", "r", "g", "e", "d">>
    /\ \A s \in fs :
          s.by = "merge_lora_weight_into_model" =>
              SubSeq(s.path, 1, Len(sft_model_file)) = sft_model_file

C3_Witness ==
    /\ InMerge /\ pc = "done"
    /\ sft_model_file = <<"m", "/", "m">>
    /\ adapter_save_dir = <<"m", "/", "l", "o", "r", "a">>
    /\ \E s \in fs : s.by = "merge_lora_weight_into_model"

\* C4: what merge_lora_weight_into_model writes is the base model with the
\* adapter merged into it: the object saved is the object merge_and_unload
\* returned, and it carries no separate adapter and is not un-merged
C4_SavedModelIsMerged ==
    /\ \A s \in fs :
          s.by = "merge_lora_weight_into_model" =>
              /\ s.content.adapter = "merged"
              /\ s.content.weights = sft_model_file
    /\ (InMerge /\ Returned("save")) =>
          /\ sft_model = peft_model
          /\ heap[sft_model].adapter = "merged"

C4_Witness ==
    /\ InMerge /\ pc = "done"
    /\ \E s \in fs : s.by = "merge_lora_weight_into_model" /\ s.run = runs

\* C6, as claimed: a run started by __main__ hands the LoraConfig it built to
\* train_dpo and saves under '/lora/'
C6_MainTrainsAdapter ==
    (from_main /\ InTrain) =>
        /\ peft_config = main_peft_config
        /\ peft_config # None
        /\ \A s \in fs :
              s.run = runs =>
                  /\ s.kind = "adapter"
                  /\ SubSeq(s.path, Len(s.path) - 5, Len(s.path))
                        = <<"/", "l", "o", "r", "a", "/">>

\* C6, amended: __main__ builds a LoraConfig but calls train_dpo with
\* peft_config=None, so a run from the entry point trains the whole model
\* and saves it under '/dpo'
C6_MainTrainsFullModel ==
    (from_main /\ InTrain) =>
        /\ main_peft_config = LoraConfig
        /\ peft_config = None
        /\ \A k \in 1..Len(heap) : heap[k].adapter = "none"
        /\ \A s \in fs :
              s.run = runs =>
                  /\ s.kind = "model"
                  /\ s.path = WithoutLastSegment(sft_model_file) \o <<"/", "d", "p", "o">>

C6_Witness ==
    /\ from_main /\ InTrain /\ pc = "done"
    /\ sft_model_file = <<"m", "/", "m">>
    /\ \E s \in fs : s.run = runs /\ s.path = <<"m", "/", "d", "p", "o">>

C8_AdapterDirMatchesTrain ==
    (InMerge /\ Started("from_pretrained")) =>
        \A s \in fs :
            s.by = "train_dpo" =>
                /\ s.kind = "adapter" => s.path = adapter_save_dir \o <<"/">>
                /\ s.kind = "model" =>
                      /\ s.path # adapter_save_dir
                      /\ s.path # adapter_save_dir \o <<"/">>
                      /\ s.path \o <<"/">> # adapter_save_dir

C8_Witness ==
    /\ InMerge /\ Returned("from_pretrained")
    /\ sft_model_file = <<"m", "/", "m">>
    /\ \E s \in fs : s.by = "train_dpo" /\ s.kind = "adapter"

\* C9: on both branches the trainer gets two distinct model objects, neither
\* None, both holding the weights of sft_model_file, and training the first
\* leaves the second as loaded
C9_DistinctModels ==
    (InTrain /\ Returned("init_trainer")) =>
        /\ dpo_trainer.model # 0 /\ dpo_trainer.ref_model # 0
        /\ dpo_trainer.model # dpo_trainer.ref_model
        /\ dpo_trainer.model = model_train /\ dpo_trainer.ref_model = model_ref
        /\ heap[dpo_trainer.model].weights = sft_model_file
        /\ heap[dpo_trainer.ref_model].weights = sft_model_file
        /\ heap[dpo_trainer.ref_model].updates = 0
        /\ heap[dpo_trainer.ref_model].adapter = "none"

C9_Witness ==
    /\ InTrain /\ Returned("train")
    /\ ~isdir
    /\ heap[dpo_trainer.model].updates > 0
    /\ heap[dpo_trainer.ref_model].updates = 0

====
